---- MODULE Spec2Model ----
(***************************************************************************)
(* A model of simple-pytdx: the BinaryReader (binary_reader.py) and the    *)
(* response framer and record decoders of Api (api.py).                    *)
(*                                                                         *)
(* Bytes are integers 0..255, buffers are sequences of bytes, and the      *)
(* cursor `pos` is the io.BytesIO position (0-based, as tell() reports).   *)
(* A Python exception is modelled by its class name in an `exc` field;     *)
(* "none" means the call returned normally.                                *)
(***************************************************************************)
EXTENDS Integers, Sequences, FiniteSets, TLC

VARIABLES
    \* the BinaryReader: its buffer, cursor and endianness flag
    buf, pos, big_endian,
    \* the last reader operation and its outcome
    res,
    \* the integer whose VarInt encoding the buffer starts with
    vx,
    \* Api._req: the socket (FALSE is None), the position in the code, the
    \* bytes the peer delivers, how many of them recv has returned, whether
    \* the peer closes after the last one, and the locals of _req
    client, fpc, stream, rcur, peerCloses,
    zipped_size, unzipped_size, remained_size, data, fexc,
    \* the size asked of the last recv of the payload loop, the number of
    \* bytes it returned, and the number of recv calls that returned b''
    lastReq, lastGot, emptyRecvs,
    \* get_k_line: the bars the payload was built from, and the call's outcome
    kin, kout,
    \* the tick decoders: the records the payload was built from, and the
    \* locals of the call in progress
    tin, tst,
    \* get_xdxr_info: the records the payload was built from, and the outcome
    xin, xout

readerVars == <<buf, pos, big_endian, res>>

framerVars == <<client, fpc, stream, rcur, peerCloses, zipped_size,
                unzipped_size, remained_size, data, fexc,
                lastReq, lastGot, emptyRecvs>>

decoderVars == <<kin, kout, tin, tst, xin, xout>>

\* everything a reader operation leaves alone besides buf and big_endian
notReader == <<vx, framerVars, decoderVars>>

vars == <<readerVars, vx, framerVars, decoderVars>>

(***************************************************************************)
(* Bounds of the model.                                                    *)
(***************************************************************************)
\* longest buffer of the reader specification
MaxBufLen == 3
\* largest magnitude of the contiguous range of integers encoded as VarInt
MaxVint == 8200
\* largest wire size a response header declares
MaxWire == 9
\* recv calls returning b'' that the model follows
MaxEmptyRecv == 2
\* most bars in a K-line payload
MaxBars == 2
\* most records in a tick payload, and most calls of a tick decoder
MaxTicks == 3
MaxTickCalls == 2
\* most records in a corporate-action payload
MaxXdxr == 2

(***************************************************************************)
(* Arithmetic helpers.                                                     *)
(***************************************************************************)
Min(a, b) == IF a < b THEN a ELSE b

Max(a, b) == IF a > b THEN a ELSE b

RECURSIVE Pow2(_)
Pow2(n) == IF n = 0 THEN 1 ELSE 2 * Pow2(n - 1)

Reverse(s) == [i \in 1..Len(s) |-> s[Len(s) + 1 - i]]

\* the unsigned number a most-significant-first byte sequence denotes
RECURSIVE UNum(_)
UNum(msb) == IF msb = <<>> THEN 0
             ELSE 256 * UNum(SubSeq(msb, 1, Len(msb) - 1)) + msb[Len(msb)]

(***************************************************************************)
(* io.BytesIO, as BinaryReader uses it.                                    *)
(***************************************************************************)
\* BytesIO.read(size): the bytes from the cursor, at most size of them; a
\* cursor at or past the end yields b''; a negative size reads to the end
IoRead(b, p, size) ==
    IF p >= Len(b) THEN <<>>
    ELSE IF size < 0 THEN SubSeq(b, p + 1, Len(b))
    ELSE SubSeq(b, p + 1, Min(p + size, Len(b)))

\* BytesIO.seek(off, SEEK_CUR): a negative target is clamped to 0, a target
\* past the end is kept
IoSeekCur(p, off) == Max(0, p + off)

\* BytesIO.seek(new_pos, SEEK_SET): a negative position raises ValueError
IoSeekSet(p, new_pos) ==
    IF new_pos < 0 THEN [exc |-> "ValueError", pos |-> p]
    ELSE [exc |-> "none", pos |-> new_pos]

(***************************************************************************)
(* BinaryReader                                                            *)
(***************************************************************************)
TypeNames == {"u8", "u16", "u32", "u64", "i8", "i16", "i32", "i64", "f32", "f64"}

\* _SUPPORTED_TYPES: the struct format character of each scalar type
SUPPORTED_TYPES(item) ==
    CASE item = "u8" -> "B" [] item = "u16" -> "H" [] item = "u32" -> "I"
      [] item = "u64" -> "Q" [] item = "i8" -> "b" [] item = "i16" -> "h"
      [] item = "i32" -> "i" [] item = "i64" -> "q" [] item = "f32" -> "f"
      [] item = "f64" -> "d"

\* struct.calcsize of a format character
CalcSize(fmt) ==
    CASE fmt \in {"B", "b"} -> 1
      [] fmt \in {"H", "h"} -> 2
      [] fmt \in {"I", "i", "f"} -> 4
      [] fmt \in {"Q", "q", "d"} -> 8

\* '><'[self._big_endian]: the flag indexes the string, so True selects '<'
ByteOrder(big) == IF big THEN "<" ELSE ">"

\* struct.unpack of one scalar: the bytes in order of significance (most
\* significant first); the number or float they denote is UNum / the
\* two's-complement / the IEEE-754 reading of this numeral
Unpack(order, raw) == IF order = "<" THEN Reverse(raw) ELSE raw

\* BinaryReader.read
Read(b, p, size) ==
    LET raw == IoRead(b, p, size)
    IN  [exc |-> "none", data |-> raw, pos |-> p + Len(raw)]

\* BinaryReader.__getattr__ for an item of _SUPPORTED_TYPES: the read moves
\* the cursor before struct.unpack rejects a short buffer
Scalar(b, p, big, item) ==
    LET UnpackRaw(size, raw) ==
            IF Len(raw) = size
            THEN [exc |-> "none", data |-> Unpack(ByteOrder(big), raw),
                  pos |-> p + size]
            ELSE [exc |-> "struct.error", data |-> <<>>, pos |-> p + Len(raw)]
        ReadSize(size) == UnpackRaw(size, IoRead(b, p, size))
    IN  ReadSize(CalcSize(SUPPORTED_TYPES(item)))

\* BinaryReader.eof
Eof(b, p) == p >= Len(b)

\* BinaryReader.skip
Skip(p, size) == IoSeekCur(p, size)

\* BinaryReader.pos setter
SetPos(p, new_pos) == IoSeekSet(p, new_pos)

\* VintLoop with every later group shifted by a whole byte
RECURSIVE VintLoopByteShift(_, _, _, _, _, _)
VintLoopByteShift(b, p, big, byte, result, pos_byte) ==
    IF byte >= 128
    THEN LET Group(r) ==
                 IF r.exc # "none"
                 THEN [exc |-> r.exc, num |-> 0, pos |-> r.pos]
                 ELSE VintLoopByteShift(b, r.pos, big, r.data[1],
                               result + (r.data[1] % 128) * Pow2(pos_byte),
                               pos_byte + 8)
         IN  Group(Scalar(b, p, big, "u8"))
    ELSE [exc |-> "none", num |-> result, pos |-> p]

\* the while loop of BinaryReader.vint
RECURSIVE VintLoop(_, _, _, _, _, _)
VintLoop(b, p, big, byte, result, pos_byte) ==
    IF byte >= 128
    THEN LET Group(r) ==
                 IF r.exc # "none"
                 THEN [exc |-> r.exc, num |-> 0, pos |-> r.pos]
                 ELSE VintLoop(b, r.pos, big, r.data[1],
                               result + (r.data[1] % 128) * Pow2(pos_byte),
                               pos_byte + 7)
         IN  Group(Scalar(b, p, big, "u8"))
    ELSE [exc |-> "none", num |-> result, pos |-> p]

\* BinaryReader.vint
Vint(b, p, big) ==
    LET Signed(sign, v) ==
            IF v.exc # "none" THEN v
            ELSE [exc |-> "none",
                  num |-> IF sign THEN 0 - v.num ELSE v.num,
                  pos |-> v.pos]
        First(r) ==
            IF r.exc # "none"
            THEN [exc |-> r.exc, num |-> 0, pos |-> r.pos]
            ELSE LET byte == r.data[1]
                     sign == (byte \div 64) % 2 = 1
                 IN  Signed(sign, VintLoop(b, r.pos, big, byte, byte % 64, 6))
    IN  First(Scalar(b, p, big, "u8"))

\* the two-byte codes the gbk codec has no character for, as rectangles
\* <<first lead, last lead, first trail, last trail>>: the user-defined
\* areas and the gaps of the symbol rows
GbkUnassigned ==
    {<<161, 167, 64, 160>>, <<162, 162, 171, 176>>, <<162, 162, 227, 228>>,
     <<162, 162, 239, 240>>, <<162, 162, 253, 254>>, <<164, 164, 244, 254>>,
     <<165, 165, 247, 254>>, <<166, 166, 185, 192>>, <<166, 166, 217, 223>>,
     <<166, 166, 236, 237>>, <<166, 166, 243, 243>>, <<166, 166, 246, 254>>,
     <<167, 167, 194, 208>>, <<167, 167, 242, 254>>, <<168, 168, 150, 160>>,
     <<168, 168, 188, 188>>, <<168, 168, 191, 191>>, <<168, 168, 193, 196>>,
     <<168, 168, 234, 254>>, <<169, 169, 88, 88>>, <<169, 169, 91, 91>>,
     <<169, 169, 93, 95>>, <<169, 169, 137, 149>>, <<169, 169, 151, 163>>,
     <<169, 169, 240, 254>>, <<170, 175, 161, 254>>, <<248, 253, 161, 254>>,
     <<215, 215, 250, 254>>, <<254, 254, 80, 254>>}

\* whether the gbk codec maps the two-byte code to a character
GbkAssigned(lead, trail) ==
    /\ lead >= 129 /\ lead <= 254
    /\ trail >= 64 /\ trail <= 254 /\ trail # 127
    /\ \A r \in GbkUnassigned :
          ~(lead >= r[1] /\ lead <= r[2] /\ trail >= r[3] /\ trail <= r[4])

\* bytes.decode('gbk'): a byte below 0x80 is one character; a lead byte
\* 0x81..0xFE takes one trail byte 0x40..0xFE other than 0x7F, and the pair
\* is a character where the codec assigns one; anything else raises
\* UnicodeDecodeError.  The text is the sequence of its characters, each the
\* byte sequence that encodes it.
RECURSIVE GbkDecode(_)
GbkDecode(bs) ==
    IF bs = <<>> THEN [exc |-> "none", text |-> <<>>]
    ELSE IF bs[1] < 128
    THEN LET rest == GbkDecode(Tail(bs))
         IN  IF rest.exc # "none" THEN rest
             ELSE [exc |-> "none", text |-> <<<<bs[1]>>>> \o rest.text]
    ELSE IF Len(bs) >= 2 /\ GbkAssigned(bs[1], bs[2])
    THEN LET rest == GbkDecode(SubSeq(bs, 3, Len(bs)))
         IN  IF rest.exc # "none" THEN rest
             ELSE [exc |-> "none", text |-> <<<<bs[1], bs[2]>>>> \o rest.text]
    ELSE [exc |-> "UnicodeDecodeError", text |-> <<>>]

\* the loop of BinaryReader.cstr: read(1)[0] raises IndexError at the end
RECURSIVE CstrLoop(_, _, _)
CstrLoop(b, p, result) ==
    LET raw == IoRead(b, p, 1)
    IN  IF raw = <<>>
        THEN [exc |-> "IndexError", text |-> <<>>, pos |-> p, got |-> Len(result)]
        ELSE IF raw[1] = 0
        THEN LET d == GbkDecode(result)
             IN  [exc |-> d.exc, text |-> d.text, pos |-> p + 1,
                  got |-> Len(result) + 1]
        ELSE CstrLoop(b, p + 1, Append(result, raw[1]))

\* BinaryReader.cstr
Cstr(b, p) == CstrLoop(b, p, <<>>)

\* the bytes of raw before its first zero byte
RECURSIVE UpToZero(_)
UpToZero(raw) ==
    IF raw = <<>> \/ raw[1] = 0 THEN <<>>
    ELSE <<raw[1]>> \o UpToZero(Tail(raw))

\* BinaryReader.rpad_str
RpadStr(b, p, size) ==
    LET raw == IoRead(b, p, size)
        d    == GbkDecode(UpToZero(raw))
    IN  [exc |-> d.exc, text |-> d.text, pos |-> p + Len(raw),
         got |-> Len(raw)]

(***************************************************************************)
(* The reader specification: any sequence of reader operations on any      *)
(* buffer of at most MaxBufLen bytes.  `res` records the last operation:   *)
(* its name, the cursor it started from, the number of bytes it asked the  *)
(* buffer for (need), the number it obtained (got), and its outcome.       *)
(***************************************************************************)
\* zero; 'A' (sign bit, no continuation); continuation only; continuation
\* and sign; all bits
ByteVals == {0, 65, 128, 193, 255}

RECURSIVE SeqsUpTo(_, _)
SeqsUpTo(S, n) ==
    IF n = 0 THEN {<<>>}
    ELSE LET shorter == SeqsUpTo(S, n - 1)
         IN  shorter \cup {Append(s, x) : s \in {t \in shorter : Len(t) = n - 1}, x \in S}

\* the cursor is kept below this by the guards of skip and the pos setter
MaxPos == MaxBufLen + 2

NoRes == [op |-> "init", from |-> 0, need |-> 0, got |-> 0, exc |-> "none",
          data |-> <<>>, num |-> 0]

\* no request is in progress
FramerIdle ==
    /\ client = FALSE /\ fpc = "idle" /\ stream = <<>> /\ rcur = 0
    /\ peerCloses = FALSE /\ zipped_size = 0 /\ unzipped_size = 0
    /\ remained_size = 0 /\ data = <<>> /\ fexc = "none"
    /\ lastReq = 0 /\ lastGot = 0 /\ emptyRecvs = 0

NoKLine == [called |-> FALSE]

NoTick == [pc |-> "idle", kind |-> "none", count |-> 0, last_price |-> 0,
           out |-> <<>>, exc |-> "none", calls |-> 0]

NoXdxr == [called |-> FALSE]

\* no decoder has been called
DecodersIdle ==
    /\ kin = <<>> /\ kout = NoKLine
    /\ tin = <<>> /\ tst = NoTick
    /\ xin = <<>> /\ xout = NoXdxr

\* BinaryReader.__init__: the size is measured and the cursor set to 0
ReaderInit ==
    /\ buf \in SeqsUpTo(ByteVals, MaxBufLen)
    /\ pos = 0
    /\ big_endian \in BOOLEAN
    /\ res = NoRes
    /\ vx = 0
    /\ FramerIdle
    /\ DecodersIdle

RdScalar(item) ==
    LET r == Scalar(buf, pos, big_endian, item)
        size == CalcSize(SUPPORTED_TYPES(item))
    IN  /\ pos' = r.pos
        /\ res' = [op |-> item, from |-> pos, need |-> size,
                   got |-> r.pos - pos, exc |-> r.exc, data |-> r.data, num |-> 0]
        /\ UNCHANGED <<buf, big_endian, notReader>>

RdRead(n) ==
    LET r == Read(buf, pos, n)
    IN  /\ pos' = r.pos
        /\ res' = [op |-> "read", from |-> pos, need |-> n,
                   got |-> Len(r.data), exc |-> r.exc, data |-> r.data, num |-> 0]
        /\ UNCHANGED <<buf, big_endian, notReader>>

RdSkip(n) ==
    /\ pos + n <= MaxPos
    /\ pos' = Skip(pos, n)
    /\ res' = [op |-> "skip", from |-> pos, need |-> 0, got |-> 0,
               exc |-> "none", data |-> <<>>, num |-> pos']
    /\ UNCHANGED <<buf, big_endian, notReader>>

RdSetPos(p) ==
    LET r == SetPos(pos, p)
    IN  /\ p <= MaxPos
        /\ pos' = r.pos
        /\ res' = [op |-> "pos", from |-> pos, need |-> 0, got |-> 0,
                   exc |-> r.exc, data |-> <<>>, num |-> 0]
        /\ UNCHANGED <<buf, big_endian, notReader>>

RdVint ==
    LET r == Vint(buf, pos, big_endian)
    IN  /\ pos' = r.pos
        /\ res' = [op |-> "vint", from |-> pos,
                   need |-> (r.pos - pos) + (IF r.exc = "none" THEN 0 ELSE 1),
                   got |-> r.pos - pos, exc |-> r.exc, data |-> <<>>,
                   num |-> r.num]
        /\ UNCHANGED <<buf, big_endian, notReader>>

RdCstr ==
    LET r == Cstr(buf, pos)
    IN  /\ pos' = r.pos
        /\ res' = [op |-> "cstr", from |-> pos,
                   need |-> r.got + (IF r.exc = "IndexError" THEN 1 ELSE 0),
                   got |-> r.got, exc |-> r.exc, data |-> r.text, num |-> 0]
        /\ UNCHANGED <<buf, big_endian, notReader>>

RdRpadStr(n) ==
    LET r == RpadStr(buf, pos, n)
    IN  /\ pos' = r.pos
        /\ res' = [op |-> "rpad_str", from |-> pos, need |-> n, got |-> r.got,
                   exc |-> r.exc, data |-> r.text, num |-> 0]
        /\ UNCHANGED <<buf, big_endian, notReader>>

ReaderNext ==
    \/ \E item \in TypeNames : RdScalar(item)
    \/ \E n \in 0..(MaxBufLen + 1) : RdRead(n)
    \/ \E n \in (0 - MaxPos)..MaxPos : RdSkip(n)
    \/ \E p \in (0 - 1)..MaxPos : RdSetPos(p)
    \/ RdVint
    \/ RdCstr
    \/ \E n \in 0..(MaxBufLen + 1) : RdRpadStr(n)

Init == ReaderInit

Next == ReaderNext

Spec == Init /\ [][Next]_vars

\* C2: every read operation whose buffer held fewer bytes than it asked for
\* ends in an error (as stated; read and rpad_str return the short data)
C2_ShortReadFails ==
    (/\ res.op \in TypeNames \cup {"read", "rpad_str", "cstr", "vint"}
     /\ res.got < res.need)
    => res.exc # "none"

\* C3: the cursor stays within the buffer, 0 <= pos <= L (as stated; skip and
\* the pos setter move it past the end)
C3_CursorInRange == pos >= 0 /\ pos <= Len(buf)

(***************************************************************************)
(* The endianness specification: a reader is constructed over a four-byte  *)
(* pattern with either value of the flag, and scalars of every type are    *)
(* read from it one after another.                                         *)
(***************************************************************************)
\* zero, one and all bits: 00 00 00 01 is among the patterns
PatternBytes == {0, 1, 255}

PatternLen == 4

EndianPatterns ==
    {s \in SeqsUpTo(PatternBytes, PatternLen) : Len(s) = PatternLen}

\* BinaryReader(io.BytesIO(pattern), big_endian)
EndianInit ==
    /\ buf \in EndianPatterns
    /\ pos = 0
    /\ big_endian \in BOOLEAN
    /\ res = NoRes
    /\ vx = 0
    /\ FramerIdle
    /\ DecodersIdle

EndianNext == \E item \in TypeNames : RdScalar(item)

SpecEndian == EndianInit /\ [][EndianNext]_vars

\* the bytes the last scalar read took from the buffer, in buffer order
RawOfLast == SubSeq(buf, res.from + 1, res.from + res.got)

\* C11: a scalar read by a reader constructed with big_endian = True has its
\* first byte as the most significant, and one read by a reader constructed
\* with big_endian = False has its first byte as the least significant (as
\* stated; '><'[self._big_endian] selects '<' for True and '>' for False)
C11_EndiannessFlag ==
    (res.op \in TypeNames /\ res.exc = "none")
    => res.data = IF big_endian THEN RawOfLast ELSE Reverse(RawOfLast)

(***************************************************************************)
(* The VarInt specification: the buffer is the encoding of an integer vx   *)
(* followed by bytes that are not part of it, and the reader reads vints.  *)
(***************************************************************************)
\* the bytes after the first of the VarInt encoding of a magnitude whose low
\* six bits are already written: 7 bits each, low groups first, the
\* continuation bit set on all but the last
RECURSIVE VintTail(_)
VintTail(rest) ==
    IF rest = 0 THEN <<>>
    ELSE <<(rest % 128) + (IF rest >= 128 THEN 128 ELSE 0)>> \o VintTail(rest \div 128)

\* the VarInt encoding of x: continuation bit 0x80, sign bit 0x40, six low
\* magnitude bits, then the tail
VintEncode(x) ==
    LET mag == IF x < 0 THEN 0 - x ELSE x
    IN  <<(mag % 64) + (IF x < 0 THEN 64 ELSE 0) + (IF mag >= 64 THEN 128 ELSE 0)>>
        \o VintTail(mag \div 64)

\* a contiguous range around the 6-bit and 13-bit boundaries, and the
\* boundaries of the 20-bit and 27-bit groups
VintInputs ==
    ((0 - MaxVint)..MaxVint)
    \cup {1048575, 1048576, 134217727, 0 - 1048575, 0 - 1048576, 0 - 134217727}

VintSuffixes == {<<>>, <<0>>, <<128>>, <<255, 65>>}

VintInit ==
    /\ vx \in VintInputs
    /\ \E suffix \in VintSuffixes : buf = VintEncode(vx) \o suffix
    /\ pos = 0
    /\ big_endian \in BOOLEAN
    /\ res = NoRes
    /\ FramerIdle
    /\ DecodersIdle

VintNext == RdVint

SpecVint == VintInit /\ [][VintNext]_vars

\* C1: reading the encoding of x with vint returns x and leaves the cursor
\* right after the last byte of the continuation chain
C1_VintRoundTrip ==
    (res.op = "vint" /\ res.from = 0)
    => /\ res.exc = "none"
       /\ res.num = vx
       /\ pos = Len(VintEncode(vx))
       /\ buf[pos] < 128
       /\ \A i \in 1..(pos - 1) : buf[i] >= 128

\* a three-byte negative value was read and a byte with its continuation bit
\* set follows it unread
C1_Witness ==
    /\ res.op = "vint" /\ res.from = 0
    /\ vx = 0 - 8192 /\ res.num = 0 - 8192
    /\ pos = 3 /\ Len(buf) = 4 /\ buf[4] = 128

(***************************************************************************)
(* Api._req: the response framer.  The peer delivers `stream` and then     *)
(* either closes the connection or stays silent.  A blocking recv(n) with  *)
(* bytes pending returns between 1 and n of them, in order; with nothing   *)
(* pending it returns b'' once the peer has closed, and raises the         *)
(* socket's timeout otherwise.                                             *)
(***************************************************************************)
RSP_HEADER_LENGTH == 16

\* a 16-bit number as struct '<H' packs it
PackU16LE(n) == <<n % 256, n \div 256>>

\* the bytes of a response header: three 32-bit fields _req does not
\* interpret, the wire (zipped) size and the logical (unzipped) size
HeaderBytes(zs, us) ==
    <<1, 0, 0, 0, 2, 0, 0, 0, 3, 0, 0, 0>> \o PackU16LE(zs) \o PackU16LE(us)

\* struct.unpack('<IIIHH', recv): the two sizes, or struct.error unless recv
\* is exactly 16 bytes long
UnpackHeader(recv) ==
    IF Len(recv) # RSP_HEADER_LENGTH
    THEN [exc |-> "struct.error", zipped |-> 0, unzipped |-> 0]
    ELSE [exc |-> "none",
          zipped   |-> UNum(Unpack("<", SubSeq(recv, 13, 14))),
          unzipped |-> UNum(Unpack("<", SubSeq(recv, 15, 16)))]

\* the size argument of the recv of the payload loop, were it the whole wire
\* size on every call
PayloadRecvSizeWhole(zipped, remained) == zipped

\* the size argument of the recv of the payload loop
PayloadRecvSize(zipped, remained) == remained

\* zlib streams a peer may send: zlib.compress(b'') and zlib.compress(b'a')
ZlibStreams ==
    {[wire |-> <<120, 156, 3, 0, 0, 0, 0, 1>>, out |-> <<>>],
     [wire |-> <<120, 156, 75, 4, 0, 0, 98, 0, 98>>, out |-> <<97>>]}

\* ---- zlib.decompress(data): a zlib stream (RFC 1950) around deflate blocks
\* ---- (RFC 1951); every failure of the decoder is a zlib.error

\* bit i (from 0) of the data: a byte is consumed least significant bit first
BitAt(d, i) == (d[(i \div 8) + 1] \div Pow2(i % 8)) % 2

NumBits(d) == 8 * Len(d)

\* the n-bit integer at bit p, least significant bit first
RECURSIVE BitsValue(_, _, _)
BitsValue(d, p, n) ==
    IF n = 0 THEN 0 ELSE BitAt(d, p) + 2 * BitsValue(d, p + 1, n - 1)

\* the number of symbols whose code has len bits
CountLen(lens, len) == Cardinality({i \in 1..Len(lens) : lens[i] = len})

\* the code space left unused by the codes of len..15 bits, -1 once the
\* lengths are over-subscribed
RECURSIVE CodeLeft(_, _, _)
CodeLeft(lens, len, left) ==
    IF len > 15 THEN left
    ELSE LET Rest(l) == IF l < 0 THEN -1 ELSE CodeLeft(lens, len + 1, l)
         IN  Rest(2 * left - CountLen(lens, len))

\* a literal/length or distance table is accepted when its code is complete,
\* or incomplete with no code longer than one bit
TableValid(lens) ==
    LET Ok(left) == left = 0 \/ (left > 0 /\ \A i \in 1..Len(lens) : lens[i] <= 1)
    IN  Ok(CodeLeft(lens, 1, 1))

\* the k-th symbol (from 0), in symbol order, of those coded in len bits
NthOfLen(lens, len, k) ==
    LET Pick(S) == (CHOOSE i \in S : Cardinality({j \in S : j < i}) = k) - 1
    IN  Pick({i \in 1..Len(lens) : lens[i] = len})

\* one symbol of the canonical Huffman code of lens, read bit by bit from p;
\* not ok when the bits are no code or the data ends
RECURSIVE DecodeSym(_, _, _, _, _, _)
DecodeSym(d, p, lens, len, code, first) ==
    IF len > 15 \/ p >= NumBits(d) THEN [ok |-> FALSE, sym |-> 0, p |-> p]
    ELSE LET Step(c, count) ==
                 IF c - count < first
                 THEN [ok |-> TRUE, sym |-> NthOfLen(lens, len, c - first),
                       p |-> p + 1]
                 ELSE DecodeSym(d, p + 1, lens, len + 1, 2 * c, 2 * (first + count))
         IN  Step(code + BitAt(d, p), CountLen(lens, len))

\* the base and the extra bits of the length symbols 257..285 and of the
\* distance symbols 0..29
LengthBase ==
    <<3, 4, 5, 6, 7, 8, 9, 10, 11, 13, 15, 17, 19, 23, 27, 31, 35, 43, 51, 59,
      67, 83, 99, 115, 131, 163, 195, 227, 258>>
LengthExtra ==
    <<0, 0, 0, 0, 0, 0, 0, 0, 1, 1, 1, 1, 2, 2, 2, 2, 3, 3, 3, 3, 4, 4, 4, 4,
      5, 5, 5, 5, 0>>
DistBase ==
    <<1, 2, 3, 4, 5, 7, 9, 13, 17, 25, 33, 49, 65, 97, 129, 193, 257, 385, 513,
      769, 1025, 1537, 2049, 3073, 4097, 6145, 8193, 12289, 16385, 24577>>
DistExtra ==
    <<0, 0, 0, 0, 1, 1, 2, 2, 3, 3, 4, 4, 5, 5, 6, 6, 7, 7, 8, 8, 9, 9, 10, 10,
      11, 11, 12, 12, 13, 13>>

\* the code lengths of a fixed block
FixedLitLens ==
    [i \in 1..288 |-> IF i <= 144 THEN 8 ELSE IF i <= 256 THEN 9
                      ELSE IF i <= 280 THEN 7 ELSE 8]
FixedDistLens == [i \in 1..30 |-> 5]

\* len bytes copied from dist bytes back; the copy may overlap its own output
LzCopy(out, len, dist) ==
    out \o [k \in 1..len |-> out[Len(out) - dist + 1 + ((k - 1) % dist)]]

\* one symbol of a compressed block at st.p: a literal, the end-of-block
\* symbol (done), or a length with its distance and the copy they ask for
CodesStep(d, st, litlens, distlens) ==
    LET Bad == [ok |-> FALSE, done |-> TRUE, p |-> st.p, out |-> st.out]
        Dist(q, len, ds) ==
            IF q + DistExtra[ds + 1] > NumBits(d) THEN Bad
            ELSE LET Copy(dist, q2) ==
                         IF dist > Len(st.out) THEN Bad
                         ELSE [ok |-> TRUE, done |-> FALSE, p |-> q2,
                               out |-> LzCopy(st.out, len, dist)]
                 IN  Copy(DistBase[ds + 1] + BitsValue(d, q, DistExtra[ds + 1]),
                          q + DistExtra[ds + 1])
        Length(q, ls) ==
            IF ls >= 29 \/ q + LengthExtra[ls + 1] > NumBits(d) THEN Bad
            ELSE LET WithDist(len, r) ==
                         IF ~r.ok THEN Bad ELSE Dist(r.p, len, r.sym)
                 IN  WithDist(LengthBase[ls + 1] + BitsValue(d, q, LengthExtra[ls + 1]),
                              DecodeSym(d, q + LengthExtra[ls + 1], distlens, 1, 0, 0))
        Sym(r) ==
            IF ~r.ok THEN Bad
            ELSE IF r.sym < 256
            THEN [ok |-> TRUE, done |-> FALSE, p |-> r.p, out |-> Append(st.out, r.sym)]
            ELSE IF r.sym = 256
            THEN [ok |-> TRUE, done |-> TRUE, p |-> r.p, out |-> st.out]
            ELSE Length(r.p, r.sym - 257)
    IN  Sym(DecodeSym(d, st.p, litlens, 1, 0, 0))

\* up to n symbols of a compressed block, stopping at the end of the block
\* or at an error
RECURSIVE CodesRun(_, _, _, _, _)
CodesRun(d, st, n, litlens, distlens) ==
    IF n <= 1 THEN CodesStep(d, st, litlens, distlens)
    ELSE LET Then(mid) ==
                 IF mid.done THEN mid
                 ELSE CodesRun(d, mid, n - (n \div 2), litlens, distlens)
         IN  Then(CodesRun(d, st, n \div 2, litlens, distlens))

\* the symbols of a compressed block up to its end-of-block symbol; a symbol
\* takes at least one bit, so the bits left bound the symbols
InflateCodes(d, p, out, litlens, distlens) ==
    CodesRun(d, [ok |-> TRUE, done |-> FALSE, p |-> p, out |-> out],
             NumBits(d) - p + 1, litlens, distlens)

\* the order in which a dynamic block stores the code length code lengths
CodeLengthOrder ==
    <<16, 17, 18, 0, 8, 7, 9, 6, 10, 5, 11, 4, 12, 3, 13, 2, 14, 1, 15>>

\* the lengths of the code length code: ncode 3-bit fields at p, the rest 0
CodeLengthLens(d, p, ncode) ==
    [s \in 1..19 |->
        LET Slot(k) == IF k <= ncode THEN BitsValue(d, p + 3 * (k - 1), 3) ELSE 0
        IN  Slot(CHOOSE k \in 1..19 : CodeLengthOrder[k] = s - 1)]

\* one symbol of the run-length coded code lengths of a dynamic block: a
\* length, a repeat of the previous length, or a run of zeros; done once
\* total lengths are read
LensStep(d, st, cl, total) ==
    LET Bad == [ok |-> FALSE, done |-> TRUE, p |-> st.p, lens |-> st.lens]
        More(q, lens) ==
            [ok |-> TRUE, done |-> Len(lens) = total, p |-> q, lens |-> lens]
        Repeat(q, nbits, base, val) ==
            IF q + nbits > NumBits(d) THEN Bad
            ELSE LET Fill(n) ==
                         IF Len(st.lens) + n > total THEN Bad
                         ELSE More(q + nbits, st.lens \o [i \in 1..n |-> val])
                 IN  Fill(base + BitsValue(d, q, nbits))
        Sym(r) ==
            IF ~r.ok THEN Bad
            ELSE IF r.sym < 16 THEN More(r.p, Append(st.lens, r.sym))
            ELSE IF r.sym = 16
            THEN IF st.lens = <<>> THEN Bad
                 ELSE Repeat(r.p, 2, 3, st.lens[Len(st.lens)])
            ELSE IF r.sym = 17 THEN Repeat(r.p, 3, 3, 0)
            ELSE Repeat(r.p, 7, 11, 0)
    IN  Sym(DecodeSym(d, st.p, cl, 1, 0, 0))

\* up to n symbols of the code lengths
RECURSIVE LensRun(_, _, _, _, _)
LensRun(d, st, n, cl, total) ==
    IF n <= 1 THEN LensStep(d, st, cl, total)
    ELSE LET Then(mid) ==
                 IF mid.done THEN mid
                 ELSE LensRun(d, mid, n - (n \div 2), cl, total)
         IN  Then(LensRun(d, st, n \div 2, cl, total))

\* the total literal/length and distance code lengths of a dynamic block,
\* coded with the code length code cl
ReadLens(d, p, cl, total) ==
    LensRun(d, [ok |-> TRUE, done |-> FALSE, p |-> p, lens |-> <<>>],
            NumBits(d) - p + 1, cl, total)

\* a block with dynamic Huffman codes: the table sizes, the code length code
\* (which must be complete), the two tables, then the symbols
InflateDynamic(d, p, out) ==
    LET Bad == [ok |-> FALSE, p |-> p, out |-> out]
        Sizes(nlen, ndist, ncode) ==
            IF nlen > 286 \/ ndist > 30 \/ p + 14 + 3 * ncode > NumBits(d) THEN Bad
            ELSE LET Built(r) ==
                         IF ~r.ok THEN Bad
                         ELSE LET Use(ll, dl) ==
                                      IF ll[257] = 0 \/ ~TableValid(ll) \/ ~TableValid(dl)
                                      THEN Bad
                                      ELSE InflateCodes(d, r.p, out, ll, dl)
                              IN  Use(SubSeq(r.lens, 1, nlen),
                                      SubSeq(r.lens, nlen + 1, nlen + ndist))
                     Tables(cl) ==
                         IF CodeLeft(cl, 1, 1) # 0 THEN Bad
                         ELSE Built(ReadLens(d, p + 14 + 3 * ncode, cl,
                                             nlen + ndist))
                 IN  Tables(CodeLengthLens(d, p + 14, ncode))
    IN  IF p + 14 > NumBits(d) THEN Bad
        ELSE Sizes(BitsValue(d, p, 5) + 257, BitsValue(d, p + 5, 5) + 1,
                   BitsValue(d, p + 10, 4) + 4)

\* a stored block: from the next byte boundary LEN, its complement NLEN, and
\* LEN bytes
InflateStored(d, p, out) ==
    LET Bad == [ok |-> FALSE, p |-> p, out |-> out]
        Start(q) ==
            IF q + 4 > Len(d) THEN Bad
            ELSE LET Copy(len, nlen) ==
                         IF len + nlen # 65535 \/ q + 4 + len > Len(d) THEN Bad
                         ELSE [ok |-> TRUE, p |-> 8 * (q + 4 + len),
                               out |-> out \o SubSeq(d, q + 5, q + 4 + len)]
                 IN  Copy(d[q + 1] + 256 * d[q + 2], d[q + 3] + 256 * d[q + 4])
    IN  Start((p + 7) \div 8)

\* one block at st.p: the final flag, the block type, and the block
BlockStep(d, st) ==
    LET Bad == [ok |-> FALSE, done |-> TRUE, p |-> st.p, out |-> st.out]
        After(last, r) ==
            [ok |-> r.ok, done |-> ~r.ok \/ last = 1, p |-> r.p, out |-> r.out]
        Block(last, type) ==
            IF type = 0 THEN After(last, InflateStored(d, st.p + 3, st.out))
            ELSE IF type = 1
            THEN After(last, InflateCodes(d, st.p + 3, st.out,
                                          FixedLitLens, FixedDistLens))
            ELSE IF type = 2 THEN After(last, InflateDynamic(d, st.p + 3, st.out))
            ELSE Bad
    IN  IF st.p + 3 > NumBits(d) THEN Bad
        ELSE Block(BitAt(d, st.p), BitsValue(d, st.p + 1, 2))

\* up to n blocks, stopping after the final block or at an error
RECURSIVE BlocksRun(_, _, _)
BlocksRun(d, st, n) ==
    IF n <= 1 THEN BlockStep(d, st)
    ELSE LET Then(mid) ==
                 IF mid.done THEN mid ELSE BlocksRun(d, mid, n - (n \div 2))
         IN  Then(BlocksRun(d, st, n \div 2))

\* the blocks of a deflate stream from bit p up to the one marked final; a
\* block takes at least three bits
InflateBlocks(d, p) ==
    BlocksRun(d, [ok |-> TRUE, done |-> FALSE, p |-> p, out |-> <<>>],
              NumBits(d) - p + 1)

\* the sum of w(i) * out[i] over lo..hi with the weights w(i) = 1 (plain) or
\* w(i) = Len(out) - i + 1
RECURSIVE AdlerSum(_, _, _, _)
AdlerSum(out, lo, hi, plain) ==
    IF lo > hi THEN 0
    ELSE IF lo = hi
    THEN IF plain THEN out[lo] ELSE (Len(out) - lo + 1) * out[lo]
    ELSE LET Mid(m) == AdlerSum(out, lo, m, plain) + AdlerSum(out, m + 1, hi, plain)
         IN  Mid((lo + hi) \div 2)

\* the Adler-32 of out as the four bytes that end a zlib stream: a is 1 plus
\* the bytes, b the sum of the values a takes, both modulo 65521
Adler32(out) ==
    LET Pack(a, b) == <<b \div 256, b % 256, a \div 256, a % 256>>
    IN  Pack((1 + AdlerSum(out, 1, Len(out), TRUE)) % 65521,
             (Len(out) + AdlerSum(out, 1, Len(out), FALSE)) % 65521)

\* zlib.decompress(data): the two header bytes (deflate, a window of at most
\* 32K, a check value divisible by 31, no preset dictionary), the blocks, and
\* the Adler-32 of the output from the next byte boundary; bytes after the
\* stream are ignored
Inflate(d) ==
    LET Error == [exc |-> "zlib.error", out |-> <<>>]
        Trailer(r) ==
            IF ~r.ok THEN Error
            ELSE LET End(q) ==
                         IF q + 4 > Len(d) THEN Error
                         ELSE IF SubSeq(d, q + 1, q + 4) # Adler32(r.out) THEN Error
                         ELSE [exc |-> "none", out |-> r.out]
                 IN  End((r.p + 7) \div 8)
    IN  IF Len(d) < 2 THEN Error
        ELSE IF \/ (256 * d[1] + d[2]) % 31 # 0
                \/ d[1] % 16 # 8
                \/ d[1] \div 16 > 7
                \/ (d[2] \div 32) % 2 = 1
        THEN Error
        ELSE Trailer(InflateBlocks(d, 16))

\* the bytes pending at the socket
Pending == SubSeq(stream, rcur + 1, Len(stream))

\* the payload bytes 1, 2, ..., n and the first bytes of a following response
PayloadBytes(n) == [i \in 1..n |-> i]

FollowingBytes == <<201, 202>>

\* the payloads of wire size n the peer may send
Payloads(n) == {PayloadBytes(n)} \cup {z.wire : z \in {y \in ZlibStreams : Len(y.wire) = n}}

\* the logical sizes a header may declare besides the wire size itself
LogicalSizes == {0, 1, 5}

FramerInit ==
    /\ client \in BOOLEAN
    /\ fpc = "idle"
    /\ \E zs \in 0..MaxWire :
         \E us \in {zs} \cup LogicalSizes, payload \in Payloads(zs) :
           LET full == HeaderBytes(zs, us) \o payload \o FollowingBytes
           IN  \E cut \in {0, 8} \cup (RSP_HEADER_LENGTH..Len(full)) :
                  stream = SubSeq(full, 1, cut)
    /\ peerCloses \in BOOLEAN
    /\ rcur = 0
    /\ zipped_size = 0 /\ unzipped_size = 0 /\ remained_size = 0
    /\ data = <<>> /\ fexc = "none"
    /\ lastReq = 0 /\ lastGot = 0 /\ emptyRecvs = 0
    /\ buf = <<>> /\ pos = 0 /\ big_endian = TRUE /\ res = NoRes
    /\ vx = 0
    /\ DecodersIdle

\* _req up to its first recv: without a socket it raises RuntimeError, else
\* the request is sent
FSend ==
    /\ fpc = "idle"
    /\ IF client
       THEN fpc' = "header" /\ fexc' = fexc
       ELSE fpc' = "raised" /\ fexc' = "RuntimeError"
    /\ UNCHANGED <<client, stream, rcur, peerCloses, zipped_size, unzipped_size,
                   remained_size, data, lastReq, lastGot, emptyRecvs>>
    /\ UNCHANGED <<readerVars, vx, decoderVars>>

\* recv(RSP_HEADER_LENGTH) returns k bytes and the header is unpacked
FRecvHeader(k) ==
    /\ fpc = "header"
    /\ k <= Min(RSP_HEADER_LENGTH, Len(Pending))
    /\ k >= 1 \/ (Pending = <<>> /\ peerCloses /\ emptyRecvs < MaxEmptyRecv)
    /\ LET recv == SubSeq(Pending, 1, k)
           h    == UnpackHeader(recv)
       IN  /\ rcur' = rcur + k
           /\ emptyRecvs' = IF k = 0 THEN emptyRecvs + 1 ELSE emptyRecvs
           /\ IF h.exc # "none"
              THEN /\ fpc' = "raised" /\ fexc' = h.exc
                   /\ UNCHANGED <<zipped_size, unzipped_size, remained_size, data>>
              ELSE /\ fpc' = "payload" /\ fexc' = fexc
                   /\ zipped_size' = h.zipped
                   /\ unzipped_size' = h.unzipped
                   /\ data' = <<>>
                   /\ remained_size' = h.zipped
    /\ UNCHANGED <<client, stream, peerCloses, lastReq, lastGot>>
    /\ UNCHANGED <<readerVars, vx, decoderVars>>

\* one iteration of the payload loop: recv returns k bytes
FRecvPayload(k) ==
    /\ fpc = "payload"
    /\ remained_size > 0
    /\ k <= Min(PayloadRecvSize(zipped_size, remained_size), Len(Pending))
    /\ k >= 1 \/ (Pending = <<>> /\ peerCloses /\ emptyRecvs < MaxEmptyRecv)
    /\ LET tmp_data == SubSeq(Pending, 1, k)
       IN  /\ rcur' = rcur + k
           /\ remained_size' = remained_size - Len(tmp_data)
           /\ data' = data \o tmp_data
           /\ lastReq' = PayloadRecvSize(zipped_size, remained_size)
           /\ lastGot' = k
           /\ emptyRecvs' = IF k = 0 THEN emptyRecvs + 1 ELSE emptyRecvs
    /\ UNCHANGED <<client, fpc, stream, peerCloses, zipped_size, unzipped_size,
                   fexc>>
    /\ UNCHANGED <<readerVars, vx, decoderVars>>

\* a recv with nothing pending on an open connection: the socket's timeout
FRecvTimeout ==
    /\ fpc = "header" \/ (fpc = "payload" /\ remained_size > 0)
    /\ Pending = <<>>
    /\ ~peerCloses
    /\ fpc' = "raised"
    /\ fexc' = "TimeoutError"
    /\ UNCHANGED <<client, stream, rcur, peerCloses, zipped_size, unzipped_size,
                   remained_size, data, lastReq, lastGot, emptyRecvs>>
    /\ UNCHANGED <<readerVars, vx, decoderVars>>

\* after the loop: the payload is inflated if the sizes differ, and a reader
\* over the result is returned
FFinish ==
    /\ fpc = "payload"
    /\ ~(remained_size > 0)
    /\ LET z == IF zipped_size # unzipped_size THEN Inflate(data)
                ELSE [exc |-> "none", out |-> data]
       IN  IF z.exc # "none"
           THEN /\ fpc' = "raised" /\ fexc' = z.exc
                /\ UNCHANGED <<data, buf, pos, big_endian>>
           ELSE /\ fpc' = "returned" /\ fexc' = fexc
                /\ data' = z.out
                /\ buf' = z.out /\ pos' = 0 /\ big_endian' = TRUE
    /\ UNCHANGED <<client, stream, rcur, peerCloses, zipped_size, unzipped_size,
                   remained_size, lastReq, lastGot, emptyRecvs>>
    /\ UNCHANGED <<res, vx, decoderVars>>

FramerNext ==
    \/ FSend
    \/ \E k \in 0..RSP_HEADER_LENGTH : FRecvHeader(k)
    \/ \E k \in 0..MaxWire : FRecvPayload(k)
    \/ FRecvTimeout
    \/ FFinish

SpecFramer == FramerInit /\ [][FramerNext]_vars

\* C4: once the header is unpacked, the bytes accumulated are the payload
\* bytes received so far in arrival order, each recv asked for no more than
\* the bytes then outstanding, and when the loop ends exactly the declared
\* wire size has been consumed from the stream
C4_PartialReads ==
    (fpc = "payload" \/ fpc = "returned" \/ (fpc = "raised" /\ fexc = "zlib.error"))
    => /\ remained_size >= 0
       /\ rcur = RSP_HEADER_LENGTH + zipped_size - remained_size
       /\ lastReq <= remained_size + lastGot
       /\ fpc = "payload" =>
            data = SubSeq(stream, RSP_HEADER_LENGTH + 1, rcur)
       /\ (fpc = "returned" /\ zipped_size = unzipped_size) =>
            /\ remained_size = 0
            /\ buf = SubSeq(stream, RSP_HEADER_LENGTH + 1, RSP_HEADER_LENGTH + zipped_size)

\* a payload of three bytes arrived in more than one chunk, was returned
\* whole, and the bytes of the following response are still pending
C4_Witness ==
    /\ fpc = "returned" /\ zipped_size = 3 /\ unzipped_size = 3
    /\ lastGot < 3 /\ buf = <<1, 2, 3>>
    /\ Pending = FollowingBytes

\* C5: once a recv has returned b'' (the peer closed the connection before
\* the header or the payload was complete) the request has failed with an
\* error (as stated; the payload loop keeps calling recv instead)
C5_ClosedConnectionFails == emptyRecvs > 0 => fpc = "raised"

\* C6: the buffer of a returned reader has the header's logical size (as
\* stated; the length of an inflated payload is not compared with it)
C6_OutputSize == fpc = "returned" => Len(buf) = unzipped_size

(***************************************************************************)
(* Api: the helpers of the record decoders.  The decoders read through the *)
(* reader _req returns, whose flag is the default big_endian = True.       *)
(***************************************************************************)
\* the KLineCategory enumeration
KLineCategory ==
    [K5 |-> 0, K15 |-> 1, K30 |-> 2, K60 |-> 3, KDaily |-> 4, KWeek |-> 5,
     KMonth |-> 6, PerMinute |-> 7, K1 |-> 8, KDay |-> 9, KSeason |-> 10,
     KYear |-> 11]

\* calendar.monthrange, as the datetime constructor checks the day
DaysInMonth(year, month) ==
    IF month = 2
    THEN IF (year % 4 = 0 /\ year % 100 # 0) \/ year % 400 = 0 THEN 29 ELSE 28
    ELSE IF month \in {4, 6, 9, 11} THEN 30 ELSE 31

\* datetime.datetime(year, month, day, hour, minute): ValueError unless the
\* fields name a moment of a year 1..9999
MakeDatetime(year, month, day, hour, minute) ==
    IF /\ year >= 1 /\ year <= 9999
       /\ month >= 1 /\ month <= 12
       /\ day >= 1 /\ day <= DaysInMonth(year, month)
       /\ hour >= 0 /\ hour <= 23
       /\ minute >= 0 /\ minute <= 59
    THEN [exc |-> "none",
          date |-> [year |-> year, month |-> month, day |-> day,
                    hour |-> hour, minute |-> minute]]
    ELSE [exc |-> "ValueError", date |-> <<>>]

\* Api._get_datetime.  A u32 zipday is hi * 65536 + lo for its two 16-bit
\* halves, so zipday // 10000 = 6 * hi + (5536 * hi + lo) // 10000 and
\* zipday % 10000 = (5536 * hi + lo) % 10000.
GetDatetime(category, b, p, big) ==
    LET Raise(r) == [exc |-> r.exc, date |-> <<>>, pos |-> r.pos]
        Made(d, end) == [exc |-> d.exc, date |-> d.date, pos |-> end]
        Minutes(zipday, t) ==
            IF t.exc # "none" THEN Raise(t)
            ELSE LET tminutes == UNum(t.data)
                 IN  Made(MakeDatetime((zipday \div 2048) + 2004,
                                       (zipday % 2048) \div 100,
                                       (zipday % 2048) % 100,
                                       tminutes \div 60,
                                       tminutes % 60),
                          t.pos)
        ZipMinutes(z) ==
            IF z.exc # "none" THEN Raise(z)
            ELSE Minutes(UNum(z.data), Scalar(b, z.pos, big, "u16"))
        ZipDay(z) ==
            IF z.exc # "none" THEN Raise(z)
            ELSE LET hi   == UNum(SubSeq(z.data, 1, 2))
                     lo   == UNum(SubSeq(z.data, 3, 4))
                     low4 == 5536 * hi + lo
                 IN  Made(MakeDatetime(6 * hi + (low4 \div 10000),
                                       (low4 % 10000) \div 100,
                                       low4 % 100,
                                       15, 0),
                          z.pos)
    IN  IF \/ KLineCategory[category] < KLineCategory["KDaily"]
           \/ category \in {"PerMinute", "K1"}
        THEN ZipMinutes(Scalar(b, p, big, "u16"))
        ELSE ZipDay(Scalar(b, p, big, "u32"))

\* _calc_price1k: the quotient, as the fraction it is
CalcPrice1k(base_value, offset) == [num |-> base_value + offset, den |-> 1000]

\* the new pre_diff_base, were the bar's absolute open left out of it
NextDiffBaseCloseOnly(price_open_diff, price_close_diff) == price_close_diff

\* pre_diff_base = price_open_diff + price_close_diff
NextDiffBase(price_open_diff, price_close_diff) == price_open_diff + price_close_diff

\* the first exception among the results rs of consecutive reads, or "none"
RECURSIVE FirstExc(_)
FirstExc(rs) ==
    IF rs = <<>> THEN "none"
    ELSE IF rs[1].exc # "none" THEN rs[1].exc ELSE FirstExc(Tail(rs))

\* the cursor after the reads rs: that of the first to fail, else of the last
RECURSIVE EndPos(_)
EndPos(rs) ==
    IF Len(rs) = 1 \/ rs[1].exc # "none" THEN rs[1].pos ELSE EndPos(Tail(rs))

\* one iteration of a loop of get_k_line: the reads of a bar in the order the
\* code makes them, each from the cursor the one before left; the index
\* shape ends with two u16.  A read after the first that raised is not
\* made: FirstExc and EndPos stop at the one that raised.  `base` is the
\* value of the local pre_diff_base when the iteration ends or raises.
KLineBar(category, b, p, big, indexShape, pre_diff_base) ==
    LET date == GetDatetime(category, b, p, big)
        o    == Vint(b, date.pos, big)
        c    == Vint(b, o.pos, big)
        h    == Vint(b, c.pos, big)
        l    == Vint(b, h.pos, big)
        vol  == Scalar(b, l.pos, big, "f32")
        amt  == Scalar(b, vol.pos, big, "f32")
        up   == Scalar(b, amt.pos, big, "u16")
        down == Scalar(b, up.pos, big, "u16")
        \* rs: date, open, close, high and low deltas, volume, amount, and in
        \* the index shape the up and down counts
        Bar(rs) ==
            IF FirstExc(rs) # "none"
            THEN [exc |-> FirstExc(rs), pos |-> EndPos(rs),
                  \* pre_diff_base is assigned once the date and the four
                  \* deltas are read, before the reads of the dict display
                  base |-> IF FirstExc(SubSeq(rs, 1, 5)) # "none"
                           THEN pre_diff_base
                           ELSE NextDiffBase(rs[2].num + pre_diff_base, rs[3].num),
                  kline |-> <<>>]
            ELSE LET price_open      == CalcPrice1k(rs[2].num, pre_diff_base)
                     price_open_diff == rs[2].num + pre_diff_base
                     common == [date   |-> rs[1].date,
                                open   |-> price_open,
                                close  |-> CalcPrice1k(price_open_diff, rs[3].num),
                                high   |-> CalcPrice1k(price_open_diff, rs[4].num),
                                low    |-> CalcPrice1k(price_open_diff, rs[5].num),
                                volume |-> rs[6].data,
                                amount |-> rs[7].data]
                 IN  [exc  |-> "none",
                      pos  |-> EndPos(rs),
                      base |-> NextDiffBase(price_open_diff, rs[3].num),
                      kline |-> IF indexShape
                                THEN [date   |-> common.date,
                                      open   |-> common.open,
                                      close  |-> common.close,
                                      high   |-> common.high,
                                      low    |-> common.low,
                                      volume |-> common.volume,
                                      amount |-> common.amount,
                                      up     |-> UNum(rs[8].data),
                                      down   |-> UNum(rs[9].data)]
                                ELSE common]
    IN  Bar(IF indexShape THEN <<date, o, c, h, l, vol, amt, up, down>>
            ELSE <<date, o, c, h, l, vol, amt>>)

\* the for loop of get_k_line: count bars from the cursor
RECURSIVE KLineLoop(_, _, _, _, _, _, _, _)
KLineLoop(category, b, p, big, indexShape, count, pre_diff_base, klines) ==
    IF count = 0
    THEN [exc |-> "none", pos |-> p, klines |-> klines, base |-> pre_diff_base]
    ELSE LET Iterate(bar) ==
                 IF bar.exc # "none"
                 THEN [exc |-> bar.exc, pos |-> bar.pos, klines |-> klines,
                       base |-> bar.base]
                 ELSE KLineLoop(category, b, bar.pos, big, indexShape, count - 1,
                                bar.base, Append(klines, bar.kline))
         IN  Iterate(KLineBar(category, b, p, big, indexShape, pre_diff_base))

\* one branch of get_k_line from the locals it starts with: the count is
\* read at the cursor, then the loop runs with the carry and the list
KLineBranch(category, b, big, indexShape, locals) ==
    LET count == Scalar(b, locals.pos, big, "u16")
    IN  IF count.exc # "none"
        THEN [exc |-> count.exc, pos |-> count.pos, klines |-> locals.klines,
              base |-> locals.pre_diff_base]
        ELSE KLineLoop(category, b, count.pos, big, indexShape,
                       UNum(count.data), locals.pre_diff_base, locals.klines)

\* a decoder of one shape alone: the cursor at p, klines = [] and
\* pre_diff_base = 0 (lines 201-202)
KLineParse(category, b, p, big, indexShape) ==
    KLineBranch(category, b, big, indexShape,
                [pos |-> p, klines |-> <<>>, pre_diff_base |-> 0])

\* the locals of the except block, were the list and the carry of the
\* abandoned attempt kept
ExceptLocalsKept(first) ==
    [pos |-> SetPos(first.pos, 0).pos, klines |-> first.klines,
     pre_diff_base |-> first.base]

\* the locals the except block sets before its loop: reader.pos = 0,
\* klines = [], pre_diff_base = 0, whatever the try block left in them
ExceptLocals(first) ==
    [pos |-> SetPos(first.pos, 0).pos, klines |-> <<>>, pre_diff_base |-> 0]

\* the exceptions `except ValueError` catches: ValueError and its subclasses
\* (struct.error derives from Exception alone)
IsValueError(exc) == exc \in {"ValueError", "UnicodeDecodeError"}

\* Api.get_k_line on the reader _req returned: the index shape is tried, and
\* on a ValueError the cursor is set to 0 and the equity shape parsed.
\* `first` is the outcome of the try block.
GetKLine(category, b, big) ==
    LET Except(first, locals) ==
            LET Equity(second) ==
                    [exc |-> second.exc,
                     klines |-> IF second.exc = "none" THEN second.klines ELSE <<>>,
                     pos |-> second.pos,
                     fallback |-> TRUE, first |-> first, rewound |-> locals.pos]
            IN  Equity(KLineBranch(category, b, big, FALSE, locals))
        Try(first) ==
            IF first.exc = "none"
            THEN [exc |-> "none", klines |-> first.klines, pos |-> first.pos,
                  fallback |-> FALSE, first |-> first, rewound |-> first.pos]
            ELSE IF ~IsValueError(first.exc)
            THEN [exc |-> first.exc, klines |-> <<>>, pos |-> first.pos,
                  fallback |-> FALSE, first |-> first, rewound |-> first.pos]
            ELSE Except(first, ExceptLocals(first))
    IN  Try(KLineParse(category, b, 0, big, TRUE))

(***************************************************************************)
(* The K-line specification: _req has returned a reader over a payload     *)
(* built from a list of bars in the index or the equity shape, and         *)
(* get_k_line decodes it.                                                  *)
(***************************************************************************)
\* a 32-bit number as struct '<I' packs it
PackU32LE(n) == PackU16LE(n % 65536) \o PackU16LE(n \div 65536)

\* the wire form of a bar's timestamp under a category
EncodeTimestamp(category, ts) ==
    IF \/ KLineCategory[category] < KLineCategory["KDaily"]
       \/ category \in {"PerMinute", "K1"}
    THEN PackU16LE((ts.year - 2004) * 2048 + ts.month * 100 + ts.day)
         \o PackU16LE(ts.hour * 60 + ts.minute)
    ELSE PackU32LE(ts.year * 10000 + ts.month * 100 + ts.day)

\* the float32 values 1.0 and 2.5, little-endian
F32One == <<0, 0, 128, 63>>

F32TwoAndHalf == <<0, 0, 32, 64>>

\* the wire form of a bar: timestamp, the four deltas, volume and amount,
\* and in the index shape the advancing and declining counts
EncodeBar(category, shape, bar) ==
    EncodeTimestamp(category, bar.ts)
    \o VintEncode(bar.o) \o VintEncode(bar.c) \o VintEncode(bar.h) \o VintEncode(bar.l)
    \o F32One \o F32TwoAndHalf
    \o (IF shape = "index" THEN PackU16LE(3) \o PackU16LE(7) ELSE <<>>)

RECURSIVE EncodeBars(_, _, _)
EncodeBars(category, shape, bars) ==
    IF bars = <<>> THEN <<>>
    ELSE EncodeBar(category, shape, bars[1]) \o EncodeBars(category, shape, Tail(bars))

EncodeKLine(in) ==
    PackU16LE(Len(in.bars)) \o EncodeBars(in.category, in.shape, in.bars)

BarTimestamps ==
    {[year |-> 2024, month |-> 3, day |-> 15, hour |-> 9, minute |-> 30],
     [year |-> 2004, month |-> 12, day |-> 31, hour |-> 15, minute |-> 0]}

\* open, close, high and low deltas
BarDeltas == {<<100, 50, 120, 0 - 10>>, <<0, 0 - 70, 5, 0 - 8200>>, <<0 - 150, 0, 0, 0>>}

BarChoices ==
    {[ts |-> t, o |-> d[1], c |-> d[2], h |-> d[3], l |-> d[4]] :
        t \in BarTimestamps, d \in BarDeltas}

KLineInputs ==
    {[category |-> cat, shape |-> sh, bars |-> bars] :
        cat \in {"K1", "KDaily"}, sh \in {"index", "equity"},
        bars \in SeqsUpTo(BarChoices, MaxBars)}

KLineInit ==
    /\ kin \in KLineInputs
    /\ buf = EncodeKLine(kin)
    /\ pos = 0 /\ big_endian = TRUE /\ res = NoRes
    /\ kout = NoKLine
    /\ vx = 0
    /\ FramerIdle
    /\ tin = <<>> /\ tst = NoTick /\ xin = <<>> /\ xout = NoXdxr

\* the call of get_k_line, from the reader _req returned to the return or
\* the exception
KCall ==
    /\ kout.called = FALSE
    /\ LET Return(r) ==
               /\ kout' = [called |-> TRUE, exc |-> r.exc, klines |-> r.klines,
                           fallback |-> r.fallback, firstExc |-> r.first.exc,
                           firstPos |-> r.first.pos, rewound |-> r.rewound,
                           firstCount |-> Len(r.first.klines),
                           firstBase |-> r.first.base]
               /\ pos' = r.pos
       IN  Return(GetKLine(kin.category, buf, big_endian))
    /\ UNCHANGED <<buf, big_endian, res, vx, framerVars, kin, tin, tst, xin, xout>>

KLineNext == KCall

SpecKLine == KLineInit /\ [][KLineNext]_vars

\* the date a bar's timestamp decodes to: a daily category fixes 15:00
BarDate(category, ts) ==
    IF category = "KDaily"
    THEN [year |-> ts.year, month |-> ts.month, day |-> ts.day, hour |-> 15, minute |-> 0]
    ELSE ts

\* C7: on a well-formed equity-shape payload of n >= 1 bars the index
\* attempt is abandoned, the cursor rewound to 0, and the equity parse
\* returns n records with no exception reaching the caller (as stated; the
\* short read of the index attempt is a struct.error, which is not caught)
C7_ShapeFallback ==
    (kout.called /\ kin.shape = "equity" /\ Len(kin.bars) >= 1)
    => /\ kout.exc = "none"
       /\ kout.firstExc # "none"
       /\ kout.fallback
       /\ kout.rewound = 0
       /\ Len(kout.klines) = Len(kin.bars)
       /\ \A i \in 1..Len(kout.klines) : DOMAIN kout.klines[i] =
            {"date", "open", "close", "high", "low", "volume", "amount"}

\* carry_i of the claim: carry_0 = 0, carry_i = abs_i + closeDelta_i
RECURSIVE RefCarry(_, _)
RefCarry(bars, i) ==
    IF i = 0 THEN 0
    ELSE (bars[i].o + RefCarry(bars, i - 1)) + bars[i].c

\* abs_i of the claim
RefAbs(bars, i) == bars[i].o + RefCarry(bars, i - 1)

\* the payload was decoded under the shape it was built in
OwnShape ==
    \/ kin.shape = "index" /\ ~kout.fallback
    \/ kin.shape = "equity" /\ kout.fallback

\* C8: the records get_k_line returns chain the deltas of the payload:
\* open_i = abs_i/1000, close, high and low = (abs_i + their delta)/1000,
\* with abs_i = openDelta_i + carry_(i-1) and carry_0 = 0
C8_DeltaChaining ==
    (kout.called /\ kout.exc = "none" /\ OwnShape)
    => /\ Len(kout.klines) = Len(kin.bars)
       /\ \A i \in 1..Len(kin.bars) :
            LET abs == RefAbs(kin.bars, i)
                k   == kout.klines[i]
            IN  /\ k.open  = [num |-> abs, den |-> 1000]
                /\ k.close = [num |-> abs + kin.bars[i].c, den |-> 1000]
                /\ k.high  = [num |-> abs + kin.bars[i].h, den |-> 1000]
                /\ k.low   = [num |-> abs + kin.bars[i].l, den |-> 1000]
                /\ k.date  = BarDate(kin.category, kin.bars[i].ts)

\* two bars were returned, the first with openDelta 100 and closeDelta 50,
\* the second with openDelta 0 opening at 150/1000
C8_Witness ==
    /\ kout.called /\ kout.exc = "none" /\ OwnShape
    /\ Len(kout.klines) = 2
    /\ kin.bars[1].o = 100 /\ kin.bars[1].c = 50 /\ kin.bars[2].o = 0
    /\ kout.klines[1].high = [num |-> 220, den |-> 1000]
    /\ kout.klines[2].open = [num |-> 150, den |-> 1000]
    /\ kout.klines[2].low = [num |-> 0 - 8050, den |-> 1000]

\* C13: whenever get_k_line abandons the index attempt and falls back, its
\* outcome is that of a decoder of the equity shape alone started on the
\* same payload at offset 0 with carry 0 and an empty list: the same
\* records, the same exception if any, the same final cursor
C13_RollbackIsolation ==
    (kout.called /\ kout.fallback)
    => LET Same(alone) ==
               /\ kout.exc = alone.exc
               /\ alone.exc = "none" => kout.klines = alone.klines
               /\ pos = alone.pos
       IN  Same(KLineParse(kin.category, buf, 0, big_endian, FALSE))

\* a fallback returned two bars after an index attempt that had built one
\* record, left a non-zero carry and moved the cursor before it raised
C13_Witness ==
    /\ kout.called /\ kout.fallback /\ kout.exc = "none"
    /\ kout.firstExc = "ValueError"
    /\ kout.firstCount = 1 /\ kout.firstBase # 0 /\ kout.firstPos > 0
    /\ kout.rewound = 0
    /\ Len(kout.klines) = 2

(***************************************************************************)
(* The tick decoders: get_minute_data, get_history_minute_data,            *)
(* get_transaction_data and get_history_transaction_data.  A call reads    *)
(* the count and runs its loop one record at a time; `tst` holds the       *)
(* locals of the call: the iterations left, last_price and the list built. *)
(***************************************************************************)
TickKinds == {"get_minute_data", "get_history_minute_data",
              "get_transaction_data", "get_history_transaction_data"}

\* the bytes each decoder skips after the count
LeadingSkip(kind) ==
    CASE kind = "get_minute_data" -> 2
      [] kind = "get_history_minute_data" -> 4
      [] kind = "get_transaction_data" -> 0
      [] kind = "get_history_transaction_data" -> 4

\* datetime.time(hour, minute): ValueError unless 0 <= hour <= 23
MakeTime(hour, minute) ==
    IF hour >= 0 /\ hour <= 23 /\ minute >= 0 /\ minute <= 59
    THEN [exc |-> "none", time |-> [hour |-> hour, minute |-> minute]]
    ELSE [exc |-> "ValueError", time |-> <<>>]

\* _get_time
GetTime(b, p, big) ==
    LET Timed(t) ==
            IF t.exc # "none" THEN [exc |-> t.exc, time |-> <<>>, pos |-> t.pos]
            ELSE LET tminutes == UNum(t.data)
                     d == MakeTime(tminutes \div 60, tminutes % 60)
                 IN  [exc |-> d.exc, time |-> d.time, pos |-> t.pos]
    IN  Timed(Scalar(b, p, big, "u16"))

\* last_price / 100: the quotient, as the fraction it is
Price100(last_price) == [num |-> last_price, den |-> 100]

\* the new last_price, were the delta stored instead of added
AccumulateReplace(last_price, price_raw) == price_raw

\* last_price += price_raw
Accumulate(last_price, price_raw) == last_price + price_raw

\* one iteration of the loop of get_minute_data / get_history_minute_data.
\* last_price and appended are the local and whether the list grew when the
\* iteration ends or raises: last_price += price_raw follows the reads of
\* price_raw and _reserved1 and precedes that of the volume.
MinuteRecord(b, p, big, last_price) ==
    LET price_raw == Vint(b, p, big)
        reserved1 == Vint(b, price_raw.pos, big)
        vol       == Vint(b, reserved1.pos, big)
        \* rs: price_raw, _reserved1, vol
        Record(rs) ==
            IF FirstExc(rs) # "none"
            THEN [exc |-> FirstExc(rs), pos |-> EndPos(rs),
                  last_price |-> IF FirstExc(SubSeq(rs, 1, 2)) # "none"
                                 THEN last_price
                                 ELSE Accumulate(last_price, rs[1].num),
                  appended |-> FALSE, rec |-> <<>>]
            ELSE LET new == Accumulate(last_price, rs[1].num)
                 IN  [exc |-> "none", pos |-> EndPos(rs), last_price |-> new,
                      appended |-> TRUE,
                      rec |-> [price |-> Price100(new), volume |-> rs[3].num]]
    IN  Record(<<price_raw, reserved1, vol>>)

\* one iteration of the loop of get_transaction_data (withReserved) /
\* get_history_transaction_data (without).  last_price += reader.vint
\* follows the read of the time; the record is appended before
\* get_transaction_data reads _reserved1.
TransactionRecord(b, p, big, last_price, withReserved) ==
    LET time      == GetTime(b, p, big)
        price_raw == Vint(b, time.pos, big)
        vol       == Vint(b, price_raw.pos, big)
        num       == Vint(b, vol.pos, big)
        buyorsell == Vint(b, num.pos, big)
        reserved1 == Vint(b, buyorsell.pos, big)
        \* rs: time, price_raw, vol, num, buyorsell and, where the decoder
        \* reads it, _reserved1
        Record(rs) ==
            LET new == Accumulate(last_price, rs[2].num)
                rec == [time |-> rs[1].time, price |-> Price100(new),
                        volume |-> rs[3].num, num |-> rs[4].num,
                        buyorsell |-> rs[5].num]
            IN  IF FirstExc(SubSeq(rs, 1, 2)) # "none"
                THEN [exc |-> FirstExc(rs), pos |-> EndPos(rs),
                      last_price |-> last_price, appended |-> FALSE, rec |-> <<>>]
                ELSE IF FirstExc(SubSeq(rs, 1, 5)) # "none"
                THEN [exc |-> FirstExc(rs), pos |-> EndPos(rs),
                      last_price |-> new, appended |-> FALSE, rec |-> <<>>]
                ELSE [exc |-> FirstExc(rs), pos |-> EndPos(rs),
                      last_price |-> new, appended |-> TRUE, rec |-> rec]
    IN  Record(IF withReserved
               THEN <<time, price_raw, vol, num, buyorsell, reserved1>>
               ELSE <<time, price_raw, vol, num, buyorsell>>)

\* one iteration of the loop of a tick decoder
TickRecord(kind, b, p, big, last_price) ==
    IF kind \in {"get_minute_data", "get_history_minute_data"}
    THEN MinuteRecord(b, p, big, last_price)
    ELSE TransactionRecord(b, p, big, last_price, kind = "get_transaction_data")

\* the wire form of a tick record as each decoder reads it
EncodeTick(kind, rec) ==
    IF kind \in {"get_minute_data", "get_history_minute_data"}
    THEN VintEncode(rec.price) \o VintEncode(rec.reserved) \o VintEncode(rec.volume)
    ELSE PackU16LE(rec.time) \o VintEncode(rec.price) \o VintEncode(rec.volume)
         \o VintEncode(rec.num) \o VintEncode(rec.buyorsell)
         \o (IF kind = "get_transaction_data" THEN VintEncode(rec.reserved) ELSE <<>>)

RECURSIVE EncodeTicks(_, _)
EncodeTicks(kind, recs) ==
    IF recs = <<>> THEN <<>>
    ELSE EncodeTick(kind, recs[1]) \o EncodeTicks(kind, Tail(recs))

\* the payload of a tick response, its last `cut` bytes missing
EncodeTickPayload(in) ==
    LET full == PackU16LE(Len(in.recs))
                \o [i \in 1..LeadingSkip(in.kind) |-> 0]
                \o EncodeTicks(in.kind, in.recs)
    IN  SubSeq(full, 1, Len(full) - in.cut)

TickDeltas == {100, 0 - 20, 5}

\* 09:30, 300 lots in 2 trades, side 1
TickChoices ==
    {[time |-> 570, price |-> d, volume |-> 300, num |-> 2, buyorsell |-> 1,
      reserved |-> 0] : d \in TickDeltas}

TickInputs ==
    {[kind |-> k, recs |-> recs, cut |-> c] :
        k \in TickKinds, recs \in SeqsUpTo(TickChoices, MaxTicks), c \in {0, 1}}

TickInit ==
    /\ tin = <<>> /\ tst = NoTick
    /\ buf = <<>> /\ pos = 0 /\ big_endian = TRUE /\ res = NoRes
    /\ vx = 0
    /\ FramerIdle
    /\ kin = <<>> /\ kout = NoKLine /\ xin = <<>> /\ xout = NoXdxr

\* a call of a tick decoder up to its loop: _req returns a reader over the
\* payload, the count is read, last_price and the list start afresh, and the
\* leading bytes are skipped
TickCall(in) ==
    /\ tst.pc \in {"idle", "returned", "raised"}
    /\ tst.calls < MaxTickCalls
    /\ tin' = in
    /\ buf' = EncodeTickPayload(in)
    /\ big_endian' = TRUE
    /\ LET count == Scalar(buf', 0, TRUE, "u16")
       IN  IF count.exc # "none"
           THEN /\ pos' = count.pos
                /\ tst' = [pc |-> "raised", kind |-> in.kind, count |-> 0,
                           last_price |-> 0, out |-> <<>>, exc |-> count.exc,
                           calls |-> tst.calls + 1]
           ELSE /\ pos' = Skip(count.pos, LeadingSkip(in.kind))
                /\ tst' = [pc |-> "loop", kind |-> in.kind,
                           count |-> UNum(count.data),
                           last_price |-> 0, out |-> <<>>, exc |-> "none",
                           calls |-> tst.calls + 1]
    /\ UNCHANGED <<res, vx, framerVars, kin, kout, xin, xout>>

\* one iteration of the loop
TickStep ==
    /\ tst.pc = "loop"
    /\ tst.count > 0
    /\ LET Iterate(r) ==
               /\ pos' = r.pos
               /\ IF r.exc # "none"
                  THEN tst' = [tst EXCEPT !.pc = "raised", !.exc = r.exc,
                                          !.last_price = r.last_price,
                                          !.out = IF r.appended
                                                  THEN Append(tst.out, r.rec)
                                                  ELSE tst.out]
                  ELSE tst' = [tst EXCEPT !.count = tst.count - 1,
                                          !.last_price = r.last_price,
                                          !.out = Append(tst.out, r.rec)]
       IN  Iterate(TickRecord(tst.kind, buf, pos, big_endian, tst.last_price))
    /\ UNCHANGED <<buf, big_endian, res, vx, framerVars, tin, kin, kout, xin, xout>>

\* the loop is over and the list is returned
TickReturn ==
    /\ tst.pc = "loop"
    /\ tst.count = 0
    /\ tst' = [tst EXCEPT !.pc = "returned"]
    /\ UNCHANGED <<readerVars, vx, framerVars, tin, kin, kout, xin, xout>>

TickNext ==
    \/ \E in \in TickInputs : TickCall(in)
    \/ TickStep
    \/ TickReturn

SpecTick == TickInit /\ [][TickNext]_vars

\* the sum of the first k price deltas of the payload
RECURSIVE SumDeltas(_, _)
SumDeltas(recs, k) == IF k = 0 THEN 0 ELSE SumDeltas(recs, k - 1) + recs[k].price

\* C9: in every call of a tick decoder, the first or a later one, last_price
\* starts at 0 and the price of the k-th record is the sum of the first k
\* price deltas of that call's payload, over 100
C9_TickAccumulator ==
    (tst.pc \in {"loop", "returned"})
    => /\ tst.out = <<>> => tst.last_price = 0
       /\ Len(tst.out) <= Len(tin.recs)
       /\ tst.pc = "returned" => Len(tst.out) = Len(tin.recs)
       /\ \A k \in 1..Len(tst.out) :
            tst.out[k].price = [num |-> SumDeltas(tin.recs, k), den |-> 100]

\* a second call returned the prices 1.00, 0.80, 0.85 for the deltas
\* 100, -20, 5
C9_Witness ==
    /\ tst.pc = "returned" /\ tst.calls = 2
    /\ Len(tin.recs) = 3
    /\ tin.recs[1].price = 100 /\ tin.recs[2].price = 0 - 20 /\ tin.recs[3].price = 5
    /\ tst.out[1].price = [num |-> 100, den |-> 100]
    /\ tst.out[2].price = [num |-> 80, den |-> 100]
    /\ tst.out[3].price = [num |-> 85, den |-> 100]

(***************************************************************************)
(* The transaction-tick layout: both transaction decoders are called on    *)
(* payloads whose every record ends with a reserved VarInt, and run their  *)
(* loops one record at a time.                                             *)
(***************************************************************************)
TransactionKinds == {"get_transaction_data", "get_history_transaction_data"}

\* a record in the six-field layout: the 16-bit time, the price delta, the
\* volume, the trade count, the side and the reserved VarInt
EncodeSixFields(rec) ==
    PackU16LE(rec.time) \o VintEncode(rec.price) \o VintEncode(rec.volume)
    \o VintEncode(rec.num) \o VintEncode(rec.buyorsell) \o VintEncode(rec.reserved)

RECURSIVE EncodeSixFieldRecords(_)
EncodeSixFieldRecords(recs) ==
    IF recs = <<>> THEN <<>>
    ELSE EncodeSixFields(recs[1]) \o EncodeSixFieldRecords(Tail(recs))

\* the payload: the count, the bytes the decoder skips, the records
EncodeTransactionPayload(in) ==
    PackU16LE(Len(in.recs))
    \o [i \in 1..LeadingSkip(in.kind) |-> 0]
    \o EncodeSixFieldRecords(in.recs)

ReservedValues == {0, 7}

\* 09:30, 300 lots in 2 trades, side 1
TransactionChoices ==
    {[time |-> 570, price |-> d, volume |-> 300, num |-> 2, buyorsell |-> 1,
      reserved |-> r] : d \in TickDeltas, r \in ReservedValues}

TransactionInputs ==
    {[kind |-> k, recs |-> recs] :
        k \in TransactionKinds, recs \in SeqsUpTo(TransactionChoices, MaxTicks)}

\* a call of a transaction decoder up to its loop, as TickCall, on a payload
\* in the six-field layout
TransactionCall(in) ==
    /\ tst.pc \in {"idle", "returned", "raised"}
    /\ tst.calls < MaxTickCalls
    /\ tin' = in
    /\ buf' = EncodeTransactionPayload(in)
    /\ big_endian' = TRUE
    /\ LET count == Scalar(buf', 0, TRUE, "u16")
       IN  IF count.exc # "none"
           THEN /\ pos' = count.pos
                /\ tst' = [pc |-> "raised", kind |-> in.kind, count |-> 0,
                           last_price |-> 0, out |-> <<>>, exc |-> count.exc,
                           calls |-> tst.calls + 1]
           ELSE /\ pos' = Skip(count.pos, LeadingSkip(in.kind))
                /\ tst' = [pc |-> "loop", kind |-> in.kind,
                           count |-> UNum(count.data),
                           last_price |-> 0, out |-> <<>>, exc |-> "none",
                           calls |-> tst.calls + 1]
    /\ UNCHANGED <<res, vx, framerVars, kin, kout, xin, xout>>

TransactionNext ==
    \/ \E in \in TransactionInputs : TransactionCall(in)
    \/ TickStep
    \/ TickReturn

SpecTransaction == TickInit /\ [][TransactionNext]_vars

\* the offset in the payload at which record k starts (k = n + 1: its end)
RecordStart(in, k) ==
    2 + LeadingSkip(in.kind) + Len(EncodeSixFieldRecords(SubSeq(in.recs, 1, k - 1)))

\* C12: in both transaction decoders each record consumes the time, the
\* price delta, the volume, the trade count, the side and one trailing
\* reserved VarInt, so that after k records the cursor is at the start of
\* record k + 1, no read fails, and the records carry the payload's fields
\* (as stated; get_history_transaction_data reads no reserved VarInt)
C12_TransactionLayout ==
    (tst.pc # "idle")
    => /\ tst.pc # "raised"
       /\ pos = RecordStart(tin, Len(tst.out) + 1)
       /\ \A k \in 1..Len(tst.out) :
            /\ tst.out[k].time = [hour |-> tin.recs[k].time \div 60,
                                  minute |-> tin.recs[k].time % 60]
            /\ tst.out[k].volume = tin.recs[k].volume
            /\ tst.out[k].num = tin.recs[k].num
            /\ tst.out[k].buyorsell = tin.recs[k].buyorsell

(***************************************************************************)
(* Api.get_xdxr_info                                                       *)
(***************************************************************************)
\* the values of the Market enumeration: SZ and SH
MarketValues == {0, 1}

\* the values of the XDXRCategory enumeration
XDXRCategoryValues == 1..14

\* calling an Enum class with a value: ValueError unless a member has it
EnumLookup(values, v) ==
    IF v \in values THEN [exc |-> "none", value |-> v]
    ELSE [exc |-> "ValueError", value |-> v]

\* the length of the UTF-8 sequence at the head of bs, 0 where the codec
\* finds none: overlong forms, surrogates, code points above U+10FFFF, stray
\* continuation bytes and truncated sequences are rejected
Utf8SeqLen(bs) ==
    LET Cont(i) == Len(bs) >= i /\ bs[i] >= 128 /\ bs[i] <= 191
        Second(lo, hi) == Len(bs) >= 2 /\ bs[2] >= lo /\ bs[2] <= hi
    IN  IF bs[1] < 128 THEN 1
        ELSE IF bs[1] >= 194 /\ bs[1] <= 223 /\ Cont(2) THEN 2
        ELSE IF bs[1] = 224 /\ Second(160, 191) /\ Cont(3) THEN 3
        ELSE IF bs[1] = 237 /\ Second(128, 159) /\ Cont(3) THEN 3
        ELSE IF bs[1] >= 225 /\ bs[1] <= 239 /\ bs[1] # 237 /\ Cont(2) /\ Cont(3)
        THEN 3
        ELSE IF bs[1] = 240 /\ Second(144, 191) /\ Cont(3) /\ Cont(4) THEN 4
        ELSE IF bs[1] >= 241 /\ bs[1] <= 243 /\ Cont(2) /\ Cont(3) /\ Cont(4) THEN 4
        ELSE IF bs[1] = 244 /\ Second(128, 143) /\ Cont(3) /\ Cont(4) THEN 4
        ELSE 0

\* bytes.decode(): strict UTF-8.  The text is the sequence of its
\* characters, each the byte sequence that encodes it.
RECURSIVE Utf8Decode(_)
Utf8Decode(bs) ==
    IF bs = <<>> THEN [exc |-> "none", text |-> <<>>]
    ELSE LET Char(n) ==
                 IF n = 0 THEN [exc |-> "UnicodeDecodeError", text |-> <<>>]
                 ELSE LET Rest(rest) ==
                              IF rest.exc # "none" THEN rest
                              ELSE [exc |-> "none",
                                    text |-> <<SubSeq(bs, 1, n)>> \o rest.text]
                      IN  Rest(Utf8Decode(SubSeq(bs, n + 1, Len(bs))))
         IN  Char(Utf8SeqLen(bs))

\* the keys the match statement gives the four floats of a record: the
\* dividend keys for ExcludeRightAndExcludeDividen, the expansion keys for
\* StockExpansionAndContraction and ReductionOfNonTradableShares, the
\* warrant keys for SendWarrant and SendPutWarrant, and for every other
\* member the keys of the share structure before and after
XdxrLabels(category) ==
    CASE category = 1 -> "dividend"
      [] category \in {11, 12} -> "expansion"
      [] category \in {13, 14} -> "warrant"
      [] OTHER -> "share_structure"

\* self.XDXRCategory(reader.u8): the byte read, then the member looked up
XdxrCategory(b, p, big) ==
    LET Member(tag) ==
            IF tag.exc # "none" THEN [exc |-> tag.exc, value |-> 0, pos |-> tag.pos]
            ELSE LET cat == EnumLookup(XDXRCategoryValues, UNum(tag.data))
                 IN  [exc |-> cat.exc, value |-> cat.value, pos |-> tag.pos]
    IN  Member(Scalar(b, p, big, "u8"))

\* one iteration of the loop of get_xdxr_info
XdxrRecord(b, p, big) ==
    LET start == Skip(p, 1 + 7)
        date  == GetDatetime("KDay", b, start, big)
        category == XdxrCategory(b, date.pos, big)
        f1 == Scalar(b, category.pos, big, "f32")
        f2 == Scalar(b, f1.pos, big, "f32")
        f3 == Scalar(b, f2.pos, big, "f32")
        f4 == Scalar(b, f3.pos, big, "f32")
        \* rs: date, category and the four floats
        Entry(rs) ==
            IF FirstExc(rs) # "none"
            THEN [exc |-> FirstExc(rs), pos |-> EndPos(rs), entry |-> <<>>]
            ELSE [exc |-> "none", pos |-> EndPos(rs),
                  entry |-> [date |-> rs[1].date, category |-> rs[2].value,
                             labels |-> XdxrLabels(rs[2].value),
                             values |-> <<rs[3].data, rs[4].data, rs[5].data,
                                          rs[6].data>>]]
    IN  Entry(<<date, category, f1, f2, f3, f4>>)

\* the for loop of get_xdxr_info; `entries` is the list `result` when the
\* loop ends or raises
RECURSIVE XdxrLoop(_, _, _, _, _)
XdxrLoop(b, p, big, count, result) ==
    IF count = 0 THEN [exc |-> "none", pos |-> p, entries |-> result]
    ELSE LET Iterate(r) ==
                 IF r.exc # "none"
                 THEN [exc |-> r.exc, pos |-> r.pos, entries |-> result]
                 ELSE XdxrLoop(b, r.pos, big, count - 1, Append(result, r.entry))
         IN  Iterate(XdxrRecord(b, p, big))

\* Api.get_xdxr_info on the reader _req returned
GetXdxrInfo(b, big) ==
    IF Len(b) < 11 THEN [exc |-> "none", pos |-> 0, entries |-> <<>>]
    ELSE LET Parse(m, market, code, text, count) ==
                 IF market.exc # "none"
                 THEN [exc |-> market.exc, pos |-> m.pos, entries |-> <<>>]
                 ELSE IF text.exc # "none"
                 THEN [exc |-> text.exc, pos |-> code.pos, entries |-> <<>>]
                 ELSE IF count.exc # "none"
                 THEN [exc |-> count.exc, pos |-> count.pos, entries |-> <<>>]
                 ELSE XdxrLoop(b, count.pos, big, UNum(count.data), <<>>)
             m == Scalar(b, 0, big, "u8")
             code == Read(b, Skip(m.pos, 2), 6)
         IN  Parse(m, EnumLookup(MarketValues, UNum(m.data)), code,
                   Utf8Decode(code.data), Scalar(b, code.pos, big, "u16"))

\* the wire form of a corporate-action record: eight bytes the decoder
\* skips, the date 2024-03-15, the category tag, four floats
EncodeXdxr(tag) ==
    <<0, 0, 0, 0, 0, 0, 0, 0>> \o PackU32LE(20240315) \o <<tag>>
    \o F32One \o F32TwoAndHalf \o F32TwoAndHalf \o F32One

RECURSIVE EncodeXdxrs(_)
EncodeXdxrs(tags) ==
    IF tags = <<>> THEN <<>> ELSE EncodeXdxr(tags[1]) \o EncodeXdxrs(Tail(tags))

\* the payload: market, two bytes skipped, the code "000778", the count and
\* the records; cut "last" drops the last byte, "short" keeps five bytes
EncodeXdxrPayload(in) ==
    LET full == <<in.market, 0, 0>> \o <<48, 48, 48, 55, 55, 56>>
                \o PackU16LE(Len(in.tags)) \o EncodeXdxrs(in.tags)
    IN  CASE in.cut = "none" -> full
          [] in.cut = "last" -> SubSeq(full, 1, Len(full) - 1)
          [] in.cut = "short" -> SubSeq(full, 1, 5)

\* the tags of the records after the first
LaterTags == {0, 1, 5, 11, 13}

\* the first record takes every tag 0..255
RECURSIVE TagSeqs(_)
TagSeqs(n) ==
    IF n = 0 THEN {<<>>}
    ELSE IF n = 1 THEN {<<>>} \cup {<<t>> : t \in 0..255}
    ELSE LET shorter == TagSeqs(n - 1)
         IN  shorter \cup {Append(s, t) : s \in {u \in shorter : Len(u) = n - 1},
                                          t \in LaterTags}

XdxrInputs ==
    {[market |-> m, tags |-> tags, cut |-> c] :
        m \in {0, 1, 2}, tags \in TagSeqs(MaxXdxr), c \in {"none", "last", "short"}}

XdxrInit ==
    /\ xin \in XdxrInputs
    /\ buf = EncodeXdxrPayload(xin)
    /\ pos = 0 /\ big_endian = TRUE /\ res = NoRes
    /\ xout = NoXdxr
    /\ vx = 0
    /\ FramerIdle
    /\ kin = <<>> /\ kout = NoKLine /\ tin = <<>> /\ tst = NoTick

\* the call of get_xdxr_info, from the reader _req returned to the return or
\* the exception
XCall ==
    /\ xout.called = FALSE
    /\ LET Return(r) ==
               /\ xout' = [called |-> TRUE, exc |-> r.exc,
                           entries |-> IF r.exc = "none" THEN r.entries ELSE <<>>]
               /\ pos' = r.pos
       IN  Return(GetXdxrInfo(buf, big_endian))
    /\ UNCHANGED <<buf, big_endian, res, vx, framerVars, kin, kout, tin, tst, xin>>

XdxrNext == XCall

SpecXdxr == XdxrInit /\ [][XdxrNext]_vars

\* C10: on a whole payload with a valid market, get_xdxr_info returns one
\* record per record of the payload whatever the tags 0..255 are, each with
\* the record's four floats, and with the share-structure keys unless the
\* tag is a dividend, expansion/contraction or warrant category (as stated;
\* a tag outside 1..14 raises ValueError)
C10_UnknownTagFallback ==
    (xout.called /\ xin.market \in MarketValues /\ xin.cut = "none")
    => /\ xout.exc = "none"
       /\ Len(xout.entries) = Len(xin.tags)
       /\ \A i \in 1..Len(xout.entries) :
            /\ xout.entries[i].values =
                 <<Reverse(F32One), Reverse(F32TwoAndHalf), Reverse(F32TwoAndHalf),
                   Reverse(F32One)>>
            /\ xin.tags[i] \notin {1, 11, 12, 13, 14}
                 => xout.entries[i].labels = "share_structure"

====
